---- MODULE Spec2Model ----
(***************************************************************************)
(* Model of Contact_map_two_conformers.py: one run of the script, from the *)
(* command line to the two combined grid figures.                          *)
(*                                                                         *)
(* Strings are sequences of one-character strings, so that split, join,    *)
(* concatenation and equality behave as Python's do.  A contact graph is   *)
(* [kind, nodes, edges]: nodes in iteration (insertion) order, edges as    *)
(* two-element sets of nodes.  A node is the identity of an mdtraj Residue *)
(* object; its attributes are NodeName and NodeSeq.                        *)
(***************************************************************************)
EXTENDS Integers, Sequences, FiniteSets, TLC

VARIABLES argv, env, pc, err, args, cut_off, residues_list, filenameA,
          filenameB, graphA, graphB, subgraphs_A, subgraphs_B, idx, res,
          subgraphA, subgraphB, written, figs, trace

vars == <<argv, env, pc, err, args, cut_off, residues_list, filenameA,
          filenameB, graphA, graphB, subgraphs_A, subgraphs_B, idx, res,
          subgraphA, subgraphB, written, figs, trace>>

(* ------------------------------ bounds --------------------------------- *)
MaxNodes == 3
MaxResidues == 2

(* ------------------------------ strings -------------------------------- *)
Digits == <<"0", "1", "2", "3", "4", "5", "6", "7", "8", "9">>

RECURSIVE Str(_)
Str(n) == IF n < 10 THEN <<Digits[n + 1]>>
          ELSE Str(n \div 10) \o <<Digits[(n % 10) + 1]>>

DigitValue(c) == CHOOSE d \in 0..9 : Digits[d + 1] = c

IsDigit(c) == \E d \in 0..9 : Digits[d + 1] = c

HasChar(s, c) == \E i \in 1..Len(s) : s[i] = c

FirstIndex(s, c) == CHOOSE i \in 1..Len(s) :
                      s[i] = c /\ \A j \in 1..(i - 1) : s[j] # c

LastIndex(s, c) == CHOOSE i \in 1..Len(s) :
                     s[i] = c /\ \A j \in (i + 1)..Len(s) : s[j] # c

RECURSIVE Split(_, _)
Split(s, sep) ==
  IF ~HasChar(s, sep) THEN <<s>>
  ELSE LET i == FirstIndex(s, sep)
       IN <<SubSeq(s, 1, i - 1)>> \o Split(SubSeq(s, i + 1, Len(s)), sep)

RECURSIVE Join(_, _)
Join(sep, parts) ==
  IF Len(parts) = 0 THEN <<>>
  ELSE IF Len(parts) = 1 THEN parts[1]
  ELSE parts[1] \o <<sep>> \o Join(sep, Tail(parts))

RECURSIVE IntOf(_)
IntOf(s) == IF Len(s) = 0 THEN 0
            ELSE 10 * IntOf(SubSeq(s, 1, Len(s) - 1)) + DigitValue(s[Len(s)])

(* float(): the value in hundredths; at most two decimals are generated.  *)
IsFloat(s) ==
  /\ \A i \in 1..Len(s) : IsDigit(s[i]) \/ s[i] = "."
  /\ Cardinality({i \in 1..Len(s) : s[i] = "."}) <= 1
  /\ \E i \in 1..Len(s) : IsDigit(s[i])

Float(s) ==
  IF ~HasChar(s, ".") THEN 100 * IntOf(s)
  ELSE LET i == FirstIndex(s, ".")
           whole == SubSeq(s, 1, i - 1)
           frac == SubSeq(s, i + 1, Len(s))
       IN 100 * IntOf(whole) +
          (IF Len(frac) = 0 THEN 0
           ELSE IF Len(frac) = 1 THEN 10 * IntOf(frac)
           ELSE IntOf(SubSeq(frac, 1, 2)))

(* ------------------------- command line inputs -------------------------- *)
P_a_pdb == <<"a", ".", "p", "d", "b">>
P_b_pdb == <<"b", ".", "p", "d", "b">>
P_a_b_pdb == <<"a", ".", "b", ".", "p", "d", "b">>
P_a == <<"a">>
P_dv_a == <<"d", ".", "v", "/", "a">>
P_d_a_pdb == <<"d", "/", "a", ".", "p", "d", "b">>

Paths == {P_a_pdb, P_b_pdb, P_a_b_pdb, P_a, P_dv_a, P_d_a_pdb}

CutoffArgs == {<<"0", ".", "3", "5">>, <<"1">>}

L_LYS171 == <<"L", "Y", "S", "1", "7", "1">>
L_LYS17 == <<"L", "Y", "S", "1", "7">>
L_lys171 == <<"l", "y", "s", "1", "7", "1">>
L_YS171 == <<"Y", "S", "1", "7", "1">>

Targets == {L_LYS171, L_LYS17, L_lys171, L_YS171}

RECURSIVE SeqsUpTo(_, _)
SeqsUpTo(S, n) ==
  IF n = 0 THEN {<<>>}
  ELSE LET shorter == SeqsUpTo(S, n - 1)
       IN shorter \cup {Append(s, x) : s \in shorter, x \in S}

ResidueLists == SeqsUpTo(Targets, MaxResidues)

DefaultResidues ==
  << L_LYS171,
     <<"H", "I", "S", "2", "0", "1">>,
     <<"T", "Y", "R", "2", "0", "2">>,
     <<"L", "E", "U", "2", "0", "3">>,
     <<"G", "L", "Y", "2", "0", "4">>,
     <<"L", "Y", "S", "2", "0", "5">>,
     <<"G", "L", "U", "2", "3", "9">>,
     <<"A", "S", "P", "2", "5", "8">>,
     <<"G", "L", "N", "3", "9", "5">>,
     <<"K", "H", "B", "3", "6", "0">> >>

(* --residue_indices: absent (None) or a list of zero or more labels.     *)
NoResidueOption == [given |-> FALSE, values |-> <<>>]

ResidueOption(l) == [given |-> TRUE, values |-> l]

(* ------------------------------ residues -------------------------------- *)
(* Residues of the structures: 1 and 3 carry the same label (two chains),  *)
(* 2 carries a label that is a prefix of it, 5 reaches the same            *)
(* concatenation from another name and number.                             *)
NodeName(n) ==
  CASE n = 4 -> <<"H", "I", "S">>
    [] n = 5 -> <<"L", "Y", "S", "1">>
    [] OTHER -> <<"L", "Y", "S">>

NodeSeq(n) ==
  CASE n = 2 -> 17
    [] n = 4 -> 201
    [] n = 5 -> 71
    [] OTHER -> 171

NoneGraph == [kind |-> "None", nodes |-> <<>>, edges |-> {}]

Graph(ns, es) == [kind |-> "Graph", nodes |-> ns, edges |-> es]

NodeSet(g) == {g.nodes[i] : i \in 1..Len(g.nodes)}

Ascending(S) ==
  CHOOSE s \in [1..Cardinality(S) -> S] :
    \A i, j \in 1..Cardinality(S) : i < j => s[i] < s[j]

Descending(S) ==
  CHOOSE s \in [1..Cardinality(S) -> S] :
    \A i, j \in 1..Cardinality(S) : i < j => s[i] > s[j]

Pairs(S) == {e \in SUBSET S : Cardinality(e) = 2}

(* Every contact graph over at most n residues, in either iteration order. *)
GraphsUpTo(n) ==
  UNION {{Graph(ns, es) : ns \in {Ascending(S), Descending(S)},
                          es \in SUBSET Pairs(S)} : S \in SUBSET (1..n)}

(* The second structure: no residue, one residue with either label, two   *)
(* residues in contact.                                                    *)
GraphsB == {Graph(<<>>, {}), Graph(<<1>>, {}), Graph(<<2>>, {}),
            Graph(<<2, 1>>, {{1, 2}})}

(* --------------------- extract_subgraph_for_residue --------------------- *)
Label(node) == NodeName(node) \o Str(NodeSeq(node))

Matches(target_residue, graph) ==
  {i \in 1..Len(graph.nodes) : Label(graph.nodes[i]) = target_residue}

(* The loop without its break: the last node with the label wins.         *)
FindTarget_NoBreak(target_residue, graph) ==
  LET m == Matches(target_residue, graph)
  IN IF m = {} THEN [isNode |-> FALSE, node |-> 0]
     ELSE [isNode |-> TRUE,
           node |-> graph.nodes[CHOOSE i \in m : \A j \in m : i >= j]]

(* The for loop with its break: target_node stays the string unless a node *)
(* carries the label, and then it is the first such node.                  *)
FindTarget(target_residue, graph) ==
  LET m == Matches(target_residue, graph)
  IN IF m = {} THEN [isNode |-> FALSE, node |-> 0]
     ELSE [isNode |-> TRUE,
           node |-> graph.nodes[CHOOSE i \in m : \A j \in m : i <= j]]

(* target_node in graph: a string is never equal to a Residue node.       *)
InGraph(target_node, graph) ==
  target_node.isNode /\ target_node.node \in NodeSet(graph)

has_edge(graph, u, v) == {u, v} \in graph.edges

(* The subgraph induced by the target and its neighbours.                 *)
NewGraph_Induced(t, graph) ==
  LET IsNeighbour(n) == has_edge(graph, t, n)
      neighbours == SelectSeq(graph.nodes, IsNeighbour)
      members == {t} \cup {neighbours[i] : i \in 1..Len(neighbours)}
  IN Graph(<<t>> \o neighbours,
           {e \in graph.edges : e \subseteq members})

NewGraph(t, graph) ==
  LET IsNeighbour(n) == has_edge(graph, t, n)
      neighbours == SelectSeq(graph.nodes, IsNeighbour)
  IN Graph(<<t>> \o neighbours,
           {{t, neighbours[i]} : i \in 1..Len(neighbours)})

extract_subgraph_for_residue(target_residue, graph) ==
  LET target_node == FindTarget(target_residue, graph)
  IN IF InGraph(target_node, graph) THEN NewGraph(target_node.node, graph)
     ELSE NoneGraph

(* A call that takes the found node out of the graph it was given.       *)
ExtractCall_Consuming(target_residue, graph) ==
  LET target_node == FindTarget(target_residue, graph)
      IsOther(n) == n # target_node.node
  IN [graph |-> IF InGraph(target_node, graph)
                THEN Graph(SelectSeq(graph.nodes, IsOther),
                           {e \in graph.edges : target_node.node \notin e})
                ELSE graph,
      result |-> extract_subgraph_for_residue(target_residue, graph)]

(* One call: what it returns and what it leaves of the graph it was given. *)
(* The function only iterates, calls has_edge and tests membership.        *)
ExtractCall(target_residue, graph) ==
  [graph |-> graph,
   result |-> extract_subgraph_for_residue(target_residue, graph)]

(* Truth taken from the number of edges instead of the number of nodes.  *)
Truthy_ByEdges(g) == g.kind # "None" /\ g.edges # {}

(* bool(subgraph): None is false, a Graph is true iff it has a node.      *)
Truthy(g) == g.kind # "None" /\ Len(g.nodes) > 0

(* A dict keeps insertion order; assigning to a present key keeps its     *)
(* position.                                                               *)
DictKeys(d) == [i \in 1..Len(d) |-> d[i].key]

DictKeySet(d) == {d[i].key : i \in 1..Len(d)}

DictSet(d, k, v) ==
  IF k \in DictKeySet(d)
  THEN [i \in 1..Len(d) |-> IF d[i].key = k THEN [key |-> k, value |-> v]
                             ELSE d[i]]
  ELSE Append(d, [key |-> k, value |-> v])

StoreIfFound(d, r, subgraph) ==
  IF Truthy(subgraph) THEN DictSet(d, r, subgraph) ELSE d

(* ----------------------------- file names ------------------------------- *)
S_sample == <<"s", "a", "m", "p", "l", "e", "_">>
S_json == <<".", "j", "s", "o", "n">>
S_contacts == <<"_", "c", "o", "n", "t", "a", "c", "t", "s">>
S_pdf == <<".", "p", "d", "f">>
S_eps == <<".", "e", "p", "s">>
S_p == <<".", "p">>
S_diff == <<"d", "i", "f", "f", "_", "c", "o", "n", "t", "a", "c", "t", "s",
            "_">>
S_combined == <<"_", "c", "o", "m", "b", "i", "n", "e", "d", ".", "p", "n",
                "g">>
S_title_prefix == <<"S", "u", "b", "g", "r", "a", "p", "h", " ", "f", "o",
                    "r">>

Stem(path) ==
  LET parts == Split(path, ".")
  IN Join(".", SubSeq(parts, 1, Len(parts) - 1))

(* The JSON dump under a name that ignores the stem.                      *)
JsonName_Fixed(filename) == S_sample \o S_json

JsonName(filename) == S_sample \o filename \o S_json

ContactsName(filename, ext) == filename \o S_contacts \o ext

DiffName(fA, fB, ext) == S_diff \o fA \o <<"_">> \o fB \o ext

CombinedName(fname_prefix) == fname_prefix \o S_combined

Wrote(name, owner) == [name |-> name, by |-> owner]

plot_contact_map(filename, owner) ==
  << Wrote(JsonName(filename), owner),
     Wrote(ContactsName(filename, S_pdf), owner),
     Wrote(ContactsName(filename, S_eps), owner),
     Wrote(ContactsName(filename, S_p), owner) >>

(* ------------------ plot_multiple_contact_network_graphs ---------------- *)
DefaultCols == 3

NoFig == [status |-> "none", rows |-> 0, naxes |-> 0, drawn |-> <<>>,
          off |-> {}, saved |-> <<>>]

Rows(num_graphs, cols) == (num_graphs + cols - 1) \div cols

Raised(status, rows) == [NoFig EXCEPT !.status = status, !.rows = rows]

(* The outcomes of one call.  plt.subplots rejects a grid of zero rows; a  *)
(* build that returns an empty axes array instead reaches range(i + 1, ..) *)
(* with i never bound.  A 1 x 1 grid is returned as a single Axes, which   *)
(* has no flatten.  Axes and dictionary entries are numbered from 0.       *)
plot_multiple_contact_network_graphs(graph_dict, title_prefix, cols, fname_prefix) ==
  LET num_graphs == Len(graph_dict)
      rows == Rows(num_graphs, cols)
      naxes == rows * cols
  IN IF rows = 0
     THEN {Raised("ValueError", rows), Raised("UnboundLocalError", rows)}
     ELSE IF naxes = 1 THEN {Raised("AttributeError", rows)}
     ELSE {[status |-> "ok", rows |-> rows, naxes |-> naxes,
            drawn |-> [k \in 1..num_graphs |->
                         title_prefix \o <<" ">> \o graph_dict[k].key],
            off |-> num_graphs..(naxes - 1),
            saved |-> <<CombinedName(fname_prefix)>>]}

(* ------------------------------ the run --------------------------------- *)
(* argparse: a positional argument without nargs takes exactly one command *)
(* line string, whatever its default.                                      *)
CutOffArgument == [nargs |-> "None", default |-> 35]

Optional(argument) == argument.nargs \in {"?", "*"}

NoArgs == [pdbA_file |-> <<>>, pdbB_file |-> <<>>, cut_off |-> 0,
           residue_indices |-> NoResidueOption]

(* The difference computed before the contact map of B is plotted.       *)
Successor_DiffFirst(p) ==
  CASE p = "parse" -> "load"
    [] p = "load" -> "names"
    [] p = "names" -> "freq"
    [] p = "freq" -> "plotA"
    [] p = "plotA" -> "diff"
    [] p = "diff" -> "diffplot"
    [] p = "diffplot" -> "plotB"
    [] p = "plotB" -> "graphs"
    [] p = "graphs" -> "loop"
    [] p = "loop" -> "gridA"
    [] p = "gridA" -> "gridB"
    [] p = "gridB" -> "done"
    [] OTHER -> "done"

(* The statements of the script in program order; "loop" is the body of    *)
(* the for loop over residues_list.                                        *)
Successor(p) ==
  CASE p = "parse" -> "load"
    [] p = "load" -> "names"
    [] p = "names" -> "freq"
    [] p = "freq" -> "plotA"
    [] p = "plotA" -> "plotB"
    [] p = "plotB" -> "diff"
    [] p = "diff" -> "diffplot"
    [] p = "diffplot" -> "graphs"
    [] p = "graphs" -> "loop"
    [] p = "loop" -> "gridA"
    [] p = "gridA" -> "gridB"
    [] p = "gridB" -> "done"
    [] OTHER -> "done"

(* Where control goes when the for loop is at index i of list l.          *)
LoopOrAfter(i, l) == IF i <= Len(l) THEN "loop" ELSE Successor("loop")

Raise(kind) == /\ pc' = "exit"
               /\ err' = kind

InitCommon ==
  /\ pc = "parse"
  /\ err = "none"
  /\ args = NoArgs
  /\ cut_off = 0
  /\ residues_list = <<>>
  /\ filenameA = <<>>
  /\ filenameB = <<>>
  /\ graphA = NoneGraph
  /\ graphB = NoneGraph
  /\ subgraphs_A = <<>>
  /\ subgraphs_B = <<>>
  /\ idx = 1
  /\ res = <<>>
  /\ subgraphA = NoneGraph
  /\ subgraphB = NoneGraph
  /\ written = <<>>
  /\ figs = [A |-> NoFig, B |-> NoFig]
  /\ trace = <<>>

CommandLines(paths, options) ==
  {[positionals |-> ps, residue_indices |-> o] :
     ps \in {<<a, b>> : a \in paths, b \in paths}
            \cup {<<a, b, c>> : a \in paths, b \in paths, c \in CutoffArgs},
     o \in options}

(* Every pair of paths, on two fixed structures.                          *)
InitPaths ==
  /\ argv \in CommandLines(Paths, {NoResidueOption,
                                   ResidueOption(<<L_LYS17, L_LYS171>>)})
  /\ env = [graphA |-> Graph(<<1, 2, 3>>, {{1, 2}, {1, 3}, {2, 3}}),
            graphB |-> Graph(<<2, 1>>, {})]
  /\ InitCommon

(* Every first structure and every residue list, on two fixed paths.      *)
InitGraphs ==
  /\ argv \in {[positionals |-> ps, residue_indices |-> o] :
                 ps \in {<<P_a_pdb, P_b_pdb, <<"0", ".", "3", "5">> >>},
                 o \in {NoResidueOption}
                       \cup {ResidueOption(l) : l \in ResidueLists}}
  /\ env \in [graphA : GraphsUpTo(MaxNodes), graphB : GraphsB]
  /\ InitCommon

Init == InitPaths \/ InitGraphs

ParseArgs ==
  /\ pc = "parse"
  /\ trace' = Append(trace, "parse")
  /\ LET ps == argv.positionals
     IN IF Len(ps) < 3 /\ ~Optional(CutOffArgument)
        THEN Raise("SystemExit") /\ UNCHANGED args
        ELSE IF Len(ps) = 3 /\ ~IsFloat(ps[3])
        THEN Raise("SystemExit") /\ UNCHANGED args
        ELSE /\ args' = [pdbA_file |-> ps[1], pdbB_file |-> ps[2],
                         cut_off |-> IF Len(ps) < 3
                                     THEN CutOffArgument.default
                                     ELSE Float(ps[3]),
                         residue_indices |-> argv.residue_indices]
             /\ pc' = Successor(pc)
             /\ UNCHANGED err
  /\ UNCHANGED <<argv, env, cut_off, residues_list, filenameA, filenameB,
                 graphA, graphB, subgraphs_A, subgraphs_B, idx, res,
                 subgraphA, subgraphB, written, figs>>

(* md.load of both files; an unreadable file raises.                      *)
Load ==
  /\ pc = "load"
  /\ trace' = Append(trace, "load")
  /\ \/ pc' = Successor(pc) /\ UNCHANGED err
     \/ Raise("IOError")
  /\ UNCHANGED <<argv, env, args, cut_off, residues_list, filenameA,
                 filenameB, graphA, graphB, subgraphs_A, subgraphs_B, idx,
                 res, subgraphA, subgraphB, written, figs>>

DeriveNames ==
  /\ pc = "names"
  /\ trace' = Append(trace, "names")
  /\ cut_off' = args.cut_off
  /\ residues_list' = IF args.residue_indices.given
                      THEN args.residue_indices.values
                      ELSE DefaultResidues
  /\ filenameA' = Stem(args.pdbA_file)
  /\ filenameB' = Stem(args.pdbB_file)
  /\ pc' = Successor(pc)
  /\ UNCHANGED <<argv, env, err, args, graphA, graphB, subgraphs_A,
                 subgraphs_B, idx, res, subgraphA, subgraphB, written, figs>>

OnlyControl == UNCHANGED <<argv, env, err, args, cut_off, residues_list,
                           filenameA, filenameB, graphA, graphB,
                           subgraphs_A, subgraphs_B, idx, res, subgraphA,
                           subgraphB, figs>>

ComputeFrequencies ==
  /\ pc = "freq"
  /\ trace' = Append(trace, "freq")
  /\ pc' = Successor(pc)
  /\ UNCHANGED written
  /\ OnlyControl

PlotContactMapA ==
  /\ pc = "plotA"
  /\ trace' = Append(trace, "plotA")
  /\ written' = written \o plot_contact_map(filenameA, "A")
  /\ pc' = Successor(pc)
  /\ OnlyControl

PlotContactMapB ==
  /\ pc = "plotB"
  /\ trace' = Append(trace, "plotB")
  /\ written' = written \o plot_contact_map(filenameB, "B")
  /\ pc' = Successor(pc)
  /\ OnlyControl

ComputeDifference ==
  /\ pc = "diff"
  /\ trace' = Append(trace, "diff")
  /\ pc' = Successor(pc)
  /\ UNCHANGED written
  /\ OnlyControl

ExportDifference ==
  /\ pc = "diffplot"
  /\ trace' = Append(trace, "diffplot")
  /\ written' = written \o
        << Wrote(DiffName(filenameA, filenameB, S_pdf), "diff"),
           Wrote(DiffName(filenameA, filenameB, S_eps), "diff") >>
  /\ pc' = Successor(pc)
  /\ OnlyControl

(* to_networkx of both contact maps, the return, and the two empty dicts. *)
ToNetworkx ==
  /\ pc = "graphs"
  /\ trace' = Append(trace, "graphs")
  /\ graphA' = env.graphA
  /\ graphB' = env.graphB
  /\ subgraphs_A' = <<>>
  /\ subgraphs_B' = <<>>
  /\ idx' = 1
  /\ pc' = LoopOrAfter(1, residues_list)
  /\ UNCHANGED <<argv, env, err, args, cut_off, residues_list, filenameA,
                 filenameB, res, subgraphA, subgraphB, written, figs>>

(* One iteration of the for loop over residues_list.                      *)
ExtractStep ==
  /\ pc = "loop"
  /\ trace' = Append(trace, "loop")
  /\ LET r == residues_list[idx]
         callA == ExtractCall(r, graphA)
         callB == ExtractCall(r, graphB)
     IN /\ res' = r
        /\ graphA' = callA.graph
        /\ graphB' = callB.graph
        /\ subgraphA' = callA.result
        /\ subgraphB' = callB.result
        /\ subgraphs_A' = StoreIfFound(subgraphs_A, r, callA.result)
        /\ subgraphs_B' = StoreIfFound(subgraphs_B, r, callB.result)
  /\ idx' = idx + 1
  /\ pc' = LoopOrAfter(idx + 1, residues_list)
  /\ UNCHANGED <<argv, env, err, args, cut_off, residues_list, filenameA,
                 filenameB, written, figs>>

GridUnchanged == UNCHANGED <<argv, env, args, cut_off, residues_list,
                             filenameA, filenameB, graphA, graphB,
                             subgraphs_A, subgraphs_B, idx, res, subgraphA,
                             subgraphB>>

GridA ==
  /\ pc = "gridA"
  /\ trace' = Append(trace, "gridA")
  /\ \E fig \in plot_multiple_contact_network_graphs(
                  subgraphs_A, S_title_prefix, DefaultCols, filenameA) :
       /\ figs' = [figs EXCEPT !.A = fig]
       /\ written' = written \o [k \in 1..Len(fig.saved) |->
                                   Wrote(fig.saved[k], "A")]
       /\ IF fig.status = "ok"
          THEN pc' = Successor(pc) /\ UNCHANGED err
          ELSE Raise(fig.status)
  /\ GridUnchanged

GridB ==
  /\ pc = "gridB"
  /\ trace' = Append(trace, "gridB")
  /\ \E fig \in plot_multiple_contact_network_graphs(
                  subgraphs_B, S_title_prefix, DefaultCols, filenameB) :
       /\ figs' = [figs EXCEPT !.B = fig]
       /\ written' = written \o [k \in 1..Len(fig.saved) |->
                                   Wrote(fig.saved[k], "B")]
       /\ IF fig.status = "ok"
          THEN pc' = Successor(pc) /\ UNCHANGED err
          ELSE Raise(fig.status)
  /\ GridUnchanged

Next ==
  \/ ParseArgs
  \/ Load
  \/ DeriveNames
  \/ ComputeFrequencies
  \/ PlotContactMapA
  \/ PlotContactMapB
  \/ ComputeDifference
  \/ ExportDifference
  \/ ToNetworkx
  \/ ExtractStep
  \/ GridA
  \/ GridB

Spec == Init /\ [][Next]_vars

(* ------------------------------ properties ------------------------------ *)
Executed(step) == \E i \in 1..Len(trace) : trace[i] = step

Extracted == Executed("loop")

LabelIn(graph, label) ==
  \E i \in 1..Len(graph.nodes) :
    NodeName(graph.nodes[i]) \o Str(NodeSeq(graph.nodes[i])) = label

FirstWithLabel(graph, label) ==
  graph.nodes[CHOOSE i \in 1..Len(graph.nodes) :
    /\ NodeName(graph.nodes[i]) \o Str(NodeSeq(graph.nodes[i])) = label
    /\ \A j \in 1..(i - 1) :
         NodeName(graph.nodes[j]) \o Str(NodeSeq(graph.nodes[j])) # label]

ExactMatch(graph, label, subgraph) ==
  /\ subgraph.kind # "None" <=> LabelIn(graph, label)
  /\ subgraph.kind # "None" =>
       subgraph.nodes[1] = FirstWithLabel(graph, label)

(* C1: the result of an extraction is not None exactly when some node of   *)
(* the graph has the label name + str(resSeq) equal to the requested       *)
(* string, and it is then centred on the first such node in iteration      *)
(* order.                                                                  *)
C1_ExactLabelMatch ==
  Extracted => /\ ExactMatch(graphA, res, subgraphA)
               /\ ExactMatch(graphB, res, subgraphB)

(* Two nodes carry the label and the later-numbered one comes first; the   *)
(* other graph has only the prefix label.                                  *)
C1_Witness ==
  /\ Extracted
  /\ res = L_LYS171
  /\ graphA.nodes = <<3, 2, 1>>
  /\ subgraphA.kind = "Graph" /\ subgraphA.nodes[1] = 3
  /\ graphB.nodes = <<2>>
  /\ subgraphB.kind = "None"

LoopFinished == Executed("graphs") /\ idx > Len(residues_list)

Requested == {residues_list[i] : i \in 1..Len(residues_list)}

(* C4: after the loop the keys of each dictionary are exactly the          *)
(* requested labels that match a node of that graph, and no iteration of   *)
(* the loop ends the run.                                                  *)
C4_KeysAreTheFoundLabels ==
  /\ LoopFinished =>
       /\ DictKeySet(subgraphs_A) = {l \in Requested : LabelIn(graphA, l)}
       /\ DictKeySet(subgraphs_B) = {l \in Requested : LabelIn(graphB, l)}
  /\ (trace # <<>> /\ trace[Len(trace)] = "loop") => pc # "exit"

(* The first label is only in graph A, the second only in graph B.        *)
C4_Witness ==
  /\ LoopFinished
  /\ residues_list = <<L_LYS171, L_LYS17>>
  /\ DictKeys(subgraphs_A) = <<L_LYS171>>
  /\ DictKeys(subgraphs_B) = <<L_LYS17>>

Rank(step) ==
  CASE step = "parse" -> 0
    [] step = "load" -> 1
    [] step = "names" -> 2
    [] step = "freq" -> 3
    [] step = "plotA" -> 4
    [] step = "plotB" -> 5
    [] step = "diff" -> 6
    [] step = "diffplot" -> 7
    [] step = "graphs" -> 8
    [] step = "loop" -> 9
    [] step = "gridA" -> 10
    [] step = "gridB" -> 11

(* C5: the steps of a run happen in the one order load, frequencies, plot  *)
(* A, plot B, difference, difference plot, graphs, extraction (once per    *)
(* requested label), grid A, grid B; none is skipped and none but the      *)
(* loop body runs twice.                                                   *)
C5_LinearOrder ==
  /\ trace # <<>> => trace[1] = "parse"
  /\ \A i \in 1..(Len(trace) - 1) :
       \/ Rank(trace[i + 1]) = Rank(trace[i]) + 1
       \/ trace[i] = "loop" /\ trace[i + 1] = "loop"
       \/ trace[i] = "graphs" /\ trace[i + 1] = "gridA"
            /\ residues_list = <<>>
  /\ Cardinality({i \in 1..Len(trace) : trace[i] = "loop"})
       <= Len(residues_list)
  /\ Executed("gridA") =>
       Cardinality({i \in 1..Len(trace) : trace[i] = "loop"})
         = Len(residues_list)

C5_Witness ==
  /\ pc = "done"
  /\ Len(residues_list) = 2
  /\ Len(trace) = 13

WrittenBy(owner) ==
  {written[i].name : i \in {j \in 1..Len(written) : written[j].by = owner}}

Contains(s, sub) ==
  \E i \in 0..(Len(s) - Len(sub)) : SubSeq(s, i + 1, i + Len(sub)) = sub

OutputsOf(stem) ==
  { stem \o S_contacts \o S_pdf, stem \o S_contacts \o S_eps,
    S_sample \o stem \o S_json, stem \o S_contacts \o S_p,
    stem \o S_combined }

(* C6: a completed run has written the five outputs of each input and the  *)
(* two difference plots, each named from the stem of its input, and when   *)
(* the stems differ the outputs of the two inputs are different files.     *)
C6_OutputsWritten ==
  pc = "done" =>
    /\ WrittenBy("A") = OutputsOf(filenameA)
    /\ WrittenBy("B") = OutputsOf(filenameB)
    /\ WrittenBy("diff") =
         { S_diff \o filenameA \o <<"_">> \o filenameB \o S_pdf,
           S_diff \o filenameA \o <<"_">> \o filenameB \o S_eps }
    /\ \A n \in WrittenBy("A") \cup WrittenBy("diff") :
         Contains(n, filenameA)
    /\ \A n \in WrittenBy("B") \cup WrittenBy("diff") :
         Contains(n, filenameB)
    /\ filenameA # filenameB => WrittenBy("A") \cap WrittenBy("B") = {}

C6_Witness ==
  /\ pc = "done"
  /\ filenameA = <<"a">> /\ filenameB = <<"a", ".", "b">>
  /\ Len(written) = 12

StarOf(graph, subgraph) ==
  subgraph.kind # "None" =>
    LET t == subgraph.nodes[1]
    IN /\ NodeSet(subgraph) =
            {t} \cup {n \in NodeSet(graph) : {t, n} \in graph.edges}
       /\ subgraph.edges = {e \in graph.edges : t \in e}
       /\ \A e \in subgraph.edges : t \in e

(* C8: a returned subgraph is the star of its target: the target, its      *)
(* neighbours, the edges incident to the target, and no edge between two   *)
(* neighbours.                                                             *)
C8_SubgraphIsStar ==
  Extracted =>
    /\ StarOf(graphA, subgraphA)
    /\ StarOf(graphB, subgraphB)
    /\ \A i \in 1..Len(subgraphs_A) : StarOf(graphA, subgraphs_A[i].value)
    /\ \A i \in 1..Len(subgraphs_B) : StarOf(graphB, subgraphs_B[i].value)

(* The target's two neighbours are themselves in contact.                  *)
C8_Witness ==
  /\ Extracted
  /\ graphA.edges = {{1, 2}, {1, 3}, {2, 3}}
  /\ subgraphA.kind = "Graph"
  /\ subgraphA.edges = {{1, 2}, {1, 3}}
  /\ subgraphB.kind = "Graph"
  /\ subgraphB.edges = {}

(* C9: extraction leaves both contact graphs as to_networkx built them,    *)
(* and every stored subgraph is the one a first extraction of its label    *)
(* from the original graph gives.                                          *)
C9_GraphsNotModified ==
  Executed("graphs") =>
    /\ graphA = env.graphA
    /\ graphB = env.graphB
    /\ \A i \in 1..Len(subgraphs_A) :
         subgraphs_A[i].value =
           extract_subgraph_for_residue(subgraphs_A[i].key, env.graphA)
    /\ \A i \in 1..Len(subgraphs_B) :
         subgraphs_B[i].value =
           extract_subgraph_for_residue(subgraphs_B[i].key, env.graphB)

(* Found in A then not found, not found in B then found.                   *)
C9_Witness ==
  /\ LoopFinished
  /\ Len(residues_list) = 2
  /\ graphA.edges # {}
  /\ DictKeys(subgraphs_A) = <<residues_list[1]>>
  /\ DictKeys(subgraphs_B) = <<residues_list[2]>>

Ceil(n, d) == CHOOSE q \in 0..n : q * d >= n /\ (q = 0 \/ (q - 1) * d < n)

LayoutOf(fig, graph_dict, cols) ==
  LET n == Len(graph_dict)
  IN fig.status # "none" =>
       /\ fig.status = "ok"
       /\ fig.rows = Ceil(n, cols)
       /\ fig.naxes = fig.rows * cols
       /\ Len(fig.drawn) = n
       /\ \A k \in 1..n :
            fig.drawn[k] = S_title_prefix \o <<" ">> \o graph_dict[k].key
       /\ fig.off = {j \in 0..(fig.naxes - 1) : j >= n}

(* C2: a grid call lays n subgraphs out on ceil(n/cols) rows of cols axes, *)
(* draws entry k on axis k under its title and switches off exactly the    *)
(* axes n .. rows*cols-1.                                                  *)
C2_GridLayout ==
  /\ LayoutOf(figs.A, subgraphs_A, DefaultCols)
  /\ LayoutOf(figs.B, subgraphs_B, DefaultCols)

ClaimedStem(path) ==
  LET slash == IF HasChar(path, "/") THEN LastIndex(path, "/") ELSE 0
      file == SubSeq(path, slash + 1, Len(path))
  IN IF HasChar(file, ".")
     THEN SubSeq(path, 1, slash + LastIndex(file, ".") - 1)
     ELSE path

C7_CutoffDefault ==
  Executed("parse") =>
    /\ pc # "exit" \/ Executed("load")
    /\ Len(argv.positionals) = 2 => args.cut_off = 35
    /\ Len(argv.positionals) = 3 => args.cut_off = Float(argv.positionals[3])

(* C10: each grid call ends normally and saves its figure, whatever the    *)
(* dictionary, so that grid B is rendered whatever was found in graph A.   *)
C10_GridsAlwaysRendered ==
  /\ Executed("gridA") =>
       /\ figs.A.status = "ok"
       /\ filenameA \o S_combined \in WrittenBy("A")
  /\ Executed("gridB") =>
       /\ figs.B.status = "ok"
       /\ filenameB \o S_combined \in WrittenBy("B")
  /\ (pc = "exit" /\ Executed("graphs")) => Executed("gridB")

====
